---- MODULE Spec2Model ----
(***************************************************************************)
(* The wildfire / rainfall normalisation pipeline:                         *)
(*   process_wildfire_data            (src/process_wildfire_data.py)       *)
(*   process_and_aggregate_rainfall   (src/process_rainfall_data.py)       *)
(*   merge_datasets                   (src/map_wildfireData_to_rainfallData.py) *)
(* The state is the content of the files the three scripts read and write  *)
(* and what each script last printed.  CSV cells are texts: sequences of   *)
(* one-character strings, so that strip, lower, title, split, the numeric  *)
(* and the date coercions are computed character by character.  Numbers    *)
(* (acres, inches) are carried in thousandths.                             *)
(***************************************************************************)
EXTENDS Integers, Sequences, FiniteSets, TLC

VARIABLES
    incidents_csv,      \* data/CALFireMapDataAll.csv: [exists, header, rows]
    wildfire_monthly,   \* data/wildfire_monthly.csv: [exists, rows]
    wildfire_report,    \* what process_wildfire_data last printed
    station_metadata,   \* data/station_data.csv: [exists, header, rows]
    raw_rainfall_dir,   \* data/raw_rainfall: set of [name, header, rows]
    rainfall_monthly,   \* data/rainfall_monthly.csv: [exists, rows]
    rainfall_report,    \* what process_and_aggregate_rainfall last printed
    analysis_csv,       \* data/wildfire_rainfall_analysis.csv: [exists, rows]
    merge_report,       \* what merge_datasets last printed
    re_inline_flags_ok, \* the interpreter's re module still accepts an inline
                        \* global flag that is not at the start of a pattern
    reran               \* the stages that ran again after having completed

vars == <<incidents_csv, wildfire_monthly, wildfire_report, station_metadata,
          raw_rainfall_dir, rainfall_monthly, rainfall_report, analysis_csv,
          merge_report, re_inline_flags_ok, reran>>

wildfire_vars == <<incidents_csv, wildfire_monthly, wildfire_report>>
rainfall_vars == <<station_metadata, raw_rainfall_dir, rainfall_monthly,
                   rainfall_report, re_inline_flags_ok>>
merge_vars == <<analysis_csv, merge_report>>

----------------------------------------------------------------------------
(* Bounds of the model *)

MaxIncidents == 2
MaxStationRows == 2
MaxRawFiles == 2
MaxAggRows == 2

----------------------------------------------------------------------------
(* Texts *)

UPPERCASE == <<"A", "B", "C", "D", "E", "F", "G", "H", "I", "J", "K", "L", "M", "N", "O", "P", "Q", "R", "S", "T", "U", "V", "W", "X", "Y", "Z">>
LOWERCASE == <<"a", "b", "c", "d", "e", "f", "g", "h", "i", "j", "k", "l", "m", "n", "o", "p", "q", "r", "s", "t", "u", "v", "w", "x", "y", "z">>
DIGITS == <<"0", "1", "2", "3", "4", "5", "6", "7", "8", "9">>

UpperSet == {UPPERCASE[i] : i \in 1..Len(UPPERCASE)}
LowerSet == {LOWERCASE[i] : i \in 1..Len(LOWERCASE)}
DigitSet == {DIGITS[i] : i \in 1..Len(DIGITS)}

isupper(c) == c \in UpperSet
islower(c) == c \in LowerSet
isalpha(c) == isupper(c) \/ islower(c)
isdigit(c) == c \in DigitSet
isspace(c) == c \in {" ", "\t", "\n", "\r"}

LowerOf ==
    "A" :> "a" @@ "B" :> "b" @@ "C" :> "c" @@ "D" :> "d" @@ "E" :> "e" @@ "F" :> "f" @@ "G" :>
    "g" @@ "H" :> "h" @@ "I" :> "i" @@ "J" :> "j" @@ "K" :> "k" @@ "L" :> "l" @@ "M" :> "m" @@
    "N" :> "n" @@ "O" :> "o" @@ "P" :> "p" @@ "Q" :> "q" @@ "R" :> "r" @@ "S" :> "s" @@ "T" :>
    "t" @@ "U" :> "u" @@ "V" :> "v" @@ "W" :> "w" @@ "X" :> "x" @@ "Y" :> "y" @@ "Z" :> "z"
UpperOf ==
    "a" :> "A" @@ "b" :> "B" @@ "c" :> "C" @@ "d" :> "D" @@ "e" :> "E" @@ "f" :> "F" @@ "g" :>
    "G" @@ "h" :> "H" @@ "i" :> "I" @@ "j" :> "J" @@ "k" :> "K" @@ "l" :> "L" @@ "m" :> "M" @@
    "n" :> "N" @@ "o" :> "O" @@ "p" :> "P" @@ "q" :> "Q" @@ "r" :> "R" @@ "s" :> "S" @@ "t" :>
    "T" @@ "u" :> "U" @@ "v" :> "V" @@ "w" :> "W" @@ "x" :> "X" @@ "y" :> "Y" @@ "z" :> "Z"
DigitValue ==
    "0" :> 0 @@ "1" :> 1 @@ "2" :> 2 @@ "3" :> 3 @@ "4" :> 4 @@ "5" :> 5 @@ "6" :> 6 @@ "7" :>
    7 @@ "8" :> 8 @@ "9" :> 9

char_lower(c) == IF isupper(c) THEN LowerOf[c] ELSE c
char_upper(c) == IF islower(c) THEN UpperOf[c] ELSE c

Min(S) == CHOOSE x \in S : \A y \in S : x <= y
Max(S) == CHOOSE x \in S : \A y \in S : x >= y

\* str.lower()
lower(s) == SubSeq([i \in 1..Len(s) |-> char_lower(s[i])], 1, Len(s))

\* str.title(): a letter that follows a non-letter is upper-cased, any other
\* letter is lower-cased
title(s) ==
    SubSeq([i \in 1..Len(s) |->
               IF i = 1 \/ ~isalpha(s[i - 1]) THEN char_upper(s[i]) ELSE char_lower(s[i])],
           1, Len(s))

RECURSIVE lstrip(_)
lstrip(s) == IF s # <<>> /\ isspace(s[1]) THEN lstrip(Tail(s)) ELSE s

RECURSIVE rstrip(_)
rstrip(s) == IF s # <<>> /\ isspace(s[Len(s)]) THEN rstrip(SubSeq(s, 1, Len(s) - 1)) ELSE s

\* str.strip()
strip(s) == rstrip(lstrip(s))

\* the first position of character c in s at or after position p, 0 if none
RECURSIVE find(_, _, _)
find(s, c, p) == IF p > Len(s) THEN 0 ELSE IF s[p] = c THEN p ELSE find(s, c, p + 1)

\* str.split(sep) for a one-character separator
RECURSIVE split(_, _)
RECURSIVE split_at(_, _, _)
split_at(s, sep, k) ==
    IF k = 0 THEN <<s>>
    ELSE <<SubSeq(s, 1, k - 1)>> \o split(SubSeq(s, k + 1, Len(s)), sep)
split(s, sep) == split_at(s, sep, find(s, sep, 1))

\* str.replace(old, new), every occurrence, left to right
RECURSIVE replace(_, _, _)
replace(s, old, new) ==
    IF Len(old) = 0 \/ Len(s) < Len(old)
    THEN s
    ELSE IF SubSeq(s, 1, Len(old)) = old
         THEN new \o replace(SubSeq(s, Len(old) + 1, Len(s)), old, new)
         ELSE <<s[1]>> \o replace(Tail(s), old, new)

startswith(s, p) == Len(s) >= Len(p) /\ SubSeq(s, 1, Len(p)) = p
endswith(s, p) == Len(s) >= Len(p) /\ SubSeq(s, Len(s) - Len(p) + 1, Len(s)) = p

all_digits(s) == Len(s) > 0 /\ \A i \in 1..Len(s) : isdigit(s[i])
digit_value(c) == DigitValue[c]

RECURSIVE nat_of(_)
nat_of(s) ==
    IF s = <<>> THEN 0
    ELSE nat_of(SubSeq(s, 1, Len(s) - 1)) * 10 + digit_value(s[Len(s)])

RECURSIVE pow10(_)
pow10(n) == IF n = 0 THEN 1 ELSE 10 * pow10(n - 1)

RECURSIVE Sum(_, _)
Sum(f, S) ==
    IF S = {} THEN 0
    ELSE LET x == CHOOSE x \in S : TRUE IN f[x] + Sum(f, S \ {x})

\* the sequence s with every element computed
Eager(s) == SubSeq(s, 1, Len(s))

\* the subsets of S of at most n elements
RECURSIVE SubsetsUpTo(_, _)
SubsetsUpTo(S, n) ==
    IF n = 0 THEN {{}}
    ELSE LET smaller == SubsetsUpTo(S, n - 1)
         IN  smaller \cup {d \cup {x} : d \in smaller, x \in S}

\* the sequences over S of length at most n
SeqUpTo(S, n) == UNION {[1..k -> S] : k \in 0..n}

----------------------------------------------------------------------------
(* pandas: reading cells *)

na_NA == <<"N", "A">>
na_N_A == <<"N", "/", "A">>
na_NaN == <<"N", "a", "N">>
na_nan == <<"n", "a", "n">>
na_null == <<"n", "u", "l", "l">>
na_NULL == <<"N", "U", "L", "L">>
na_n_a == <<"n", "/", "a">>
na_None == <<"N", "o", "n", "e">>

\* read_csv: the cells read as missing (NaN): the empty cell and the default
\* na_values
NA_VALUES == {<<>>, na_NA, na_N_A, na_NaN, na_nan, na_null, na_NULL, na_n_a, na_None}
isna(cell) == cell \in NA_VALUES

\* the number digits [. digits] in thousandths, {} when the text is none
decimal_of(parts) ==
    IF Len(parts) = 1 /\ all_digits(parts[1])
    THEN {nat_of(parts[1]) * 1000}
    ELSE IF /\ Len(parts) = 2
            /\ all_digits(parts[1])
            /\ all_digits(parts[2])
            /\ Len(parts[2]) <= 3
         THEN {nat_of(parts[1]) * 1000 + nat_of(parts[2]) * pow10(3 - Len(parts[2]))}
         ELSE {}

\* pd.to_numeric(errors='coerce') of one cell: {} is NaN, {v} the number, in
\* thousandths; an optional sign, digits and an optional fraction
to_numeric(cell) ==
    IF isna(cell) THEN {}
    ELSE IF cell[1] = "-"
         THEN {0 - v : v \in decimal_of(split(Tail(cell), "."))}
         ELSE decimal_of(split(cell, "."))

days_in_month(y, m) ==
    IF m \in {4, 6, 9, 11} THEN 30
    ELSE IF m # 2 THEN 31
    ELSE IF (y % 4 = 0 /\ y % 100 # 0) \/ y % 400 = 0 THEN 29 ELSE 28

\* the timestamp of year y, month m, day d, {} (NaT) when there is none
timestamp(y, m, d) ==
    IF y \in 1678..2261 /\ m \in 1..12 /\ d \in 1..days_in_month(y, m)
    THEN {[year |-> y, month |-> m]}
    ELSE {}

\* pd.to_datetime(errors='coerce') of one ISO cell YYYY-MM-DD: {} is NaT
to_datetime(cell) ==
    IF isna(cell) THEN {}
    ELSE IF /\ Len(cell) = 10
            /\ cell[5] = "-"
            /\ cell[8] = "-"
            /\ all_digits(SubSeq(cell, 1, 4))
            /\ all_digits(SubSeq(cell, 6, 7))
            /\ all_digits(SubSeq(cell, 9, 10))
         THEN timestamp(nat_of(SubSeq(cell, 1, 4)), nat_of(SubSeq(cell, 6, 7)),
                        nat_of(SubSeq(cell, 9, 10)))
         ELSE {}

\* the position of column name in a header; 0 when the header has none
RECURSIVE col_index_from(_, _, _)
col_index_from(cols, name, p) ==
    IF p > Len(cols) THEN 0
    ELSE IF cols[p] = name THEN p ELSE col_index_from(cols, name, p + 1)
col_index(cols, name) == col_index_from(cols, name, 1)
has_col(cols, name) == col_index(cols, name) # 0

\* read_csv gives a column the dtype object when it has no cell or a cell
\* that is a text, and float64 when its cells are all missing; the .str
\* accessor of a float64 column raises AttributeError
str_accessor(cells) == cells = {} \/ \E c \in cells : ~isna(c)

NoTable == [exists |-> FALSE, header |-> <<>>, rows |-> <<>>]
NoAggregate == [exists |-> FALSE, rows |-> {}]

\* the keys <<county, year, month>> of the rows of a table
keys_of(rows) == {<<r.county, r.year, r.month>> : r \in rows}

----------------------------------------------------------------------------
(* process_wildfire_data *)

col_incident_name == <<"i", "n", "c", "i", "d", "e", "n", "t", "_", "n", "a", "m", "e">>
col_incident_county == <<"i", "n", "c", "i", "d", "e", "n", "t", "_", "c", "o", "u", "n", "t", "y">>
col_incident_dateonly_created == <<"i", "n", "c", "i", "d", "e", "n", "t", "_", "d", "a", "t", "e", "o", "n", "l", "y", "_", "c", "r", "e", "a", "t", "e", "d">>
col_incident_acres_burned == <<"i", "n", "c", "i", "d", "e", "n", "t", "_", "a", "c", "r", "e", "s", "_", "b", "u", "r", "n", "e", "d">>

\* df.columns = [col.strip().lower() for col in df.columns]
wildfire_columns(header) == Eager([i \in 1..Len(header) |-> lower(strip(header[i]))])

required_cols == <<col_incident_county, col_incident_dateonly_created, col_incident_acres_burned>>

has_required_cols(cols) == \A k \in 1..Len(required_cols) : has_col(cols, required_cols[k])

\* the rows as records of the cells in the four columns the run reads
incident_records(rows, name_at, county_at, date_at, acres_at) ==
    Eager([i \in 1..Len(rows) |->
        [incident_name |-> IF name_at = 0 THEN <<>> ELSE rows[i][name_at],
         incident_county |-> rows[i][county_at],
         incident_dateonly_created |-> rows[i][date_at],
         incident_acres_burned |-> rows[i][acres_at]]])

\* pd.read_csv and the normalized column names
wildfire_frame(rows, cols) ==
    incident_records(rows, col_index(cols, col_incident_name),
                     col_index(cols, col_incident_county),
                     col_index(cols, col_incident_dateonly_created),
                     col_index(cols, col_incident_acres_burned))

\* pd.to_numeric(df['incident_acres_burned'], errors='coerce')
coerce_acres(cell) == to_numeric(cell)

\* dropna(subset=['incident_acres_burned', 'incident_county']) keeps the row
has_acres_and_county(row) ==
    coerce_acres(row.incident_acres_burned) # {} /\ ~isna(row.incident_county)

strip_each(parts) == Eager([j \in 1..Len(parts) |-> strip(parts[j])])

\* df['incident_county'].str.split(',') and, after the explode, .str.strip()
listed_counties(cell) == strip_each(split(cell, ","))

\* pd.to_datetime(df['incident_dateonly_created'], errors='coerce')
incident_date(cell) == to_datetime(cell)

\* df['county'] = df['incident_county'].str.strip().str.title()
clean_county(name) == title(strip(name))

\* the acreage the row of one listed county carries
exploded_acres(acres, n_listed) == acres

\* the rows one incident gives: one per county it lists, none when its date
\* is NaT
exploded(i, row, listed, date, acres) ==
    {[incident |-> i, listed |-> j,
      county |-> clean_county(listed[j]),
      year |-> d.year, month |-> d.month,
      incident_name |-> row.incident_name,
      incident_acres_burned |-> exploded_acres(a, Len(listed))] :
        j \in 1..Len(listed), d \in date, a \in acres}

\* df.explode('incident_county') followed by
\* dropna(subset=['incident_dateonly_created']), on one incident
explode(i, row) ==
    exploded(i, row, listed_counties(row.incident_county),
             incident_date(row.incident_dateonly_created),
             coerce_acres(row.incident_acres_burned))

\* the frame that is grouped
wildfire_long(df) ==
    UNION {explode(i, df[i]) : i \in {i \in 1..Len(df) : has_acres_and_county(df[i])}}

\* incident_count=('incident_name', 'count'): the rows of the group whose
\* incident_name is not missing
incident_count_of(group) == Cardinality({r \in group : ~isna(r.incident_name)})

\* acres_burned=('incident_acres_burned', 'sum')
acres_burned_of(group) == Sum([r \in group |-> r.incident_acres_burned], group)

wildfire_group(rows, k) == {r \in rows : <<r.county, r.year, r.month>> = k}

wildfire_summary_row(k, group) ==
    [county |-> k[1], year |-> k[2], month |-> k[3],
     incident_count |-> incident_count_of(group),
     acres_burned |-> acres_burned_of(group)]

\* df.groupby(['county', 'year', 'month']).agg(...).reset_index()
groupby_wildfire(rows) ==
    {wildfire_summary_row(k, wildfire_group(rows, k)) : k \in keys_of(rows)}

\* the table written for the rows of a file under normalized columns
monthly_summary(rows, cols) == groupby_wildfire(wildfire_long(wildfire_frame(rows, cols)))

\* the cells of df['incident_county']
county_cells(rows, county_at) == {rows[i][county_at] : i \in 1..Len(rows)}

\* the run once the file is read.  df['incident_county'].str needs a column
\* of texts, or the run ends in an uncaught AttributeError.  The aggregation
\* names the column incident_name, which required_cols does not check:
\* without it the run ends in an uncaught KeyError.
wildfire_run_on(rows, cols) ==
    IF ~has_required_cols(cols)
    THEN [report |-> "Error: Missing one or more required columns", wrote |-> FALSE, rows |-> {}]
    ELSE IF ~str_accessor(county_cells(rows, col_index(cols, col_incident_county)))
    THEN [report |-> "Traceback: AttributeError", wrote |-> FALSE, rows |-> {}]
    ELSE IF ~has_col(cols, col_incident_name)
    THEN [report |-> "Traceback: KeyError", wrote |-> FALSE, rows |-> {}]
    ELSE [report |-> "Wildfire data processing complete.", wrote |-> TRUE,
          rows |-> monthly_summary(rows, cols)]

\* One run of process_wildfire_data on the input file f: what it prints last
\* and the table it writes, if it writes one
wildfire_run(f) ==
    IF ~f.exists
    THEN [report |-> "Error: Input file not found", wrote |-> FALSE, rows |-> {}]
    ELSE wildfire_run_on(f.rows, wildfire_columns(f.header))

\* wildfire_output when the table is written whether or not the run got there
wildfire_output_always(run, before) == [exists |-> TRUE, rows |-> run.rows]

\* monthly_summary.to_csv(output_csv_path, index=False), when the run gets there
wildfire_output(run, before) ==
    IF run.wrote THEN [exists |-> TRUE, rows |-> run.rows] ELSE before

process_wildfire_data ==
    LET run == wildfire_run(incidents_csv)
    IN  /\ wildfire_report' = run.report
        /\ wildfire_monthly' = wildfire_output(run, wildfire_monthly)
        /\ reran' = IF wildfire_report = "Wildfire data processing complete."
                    THEN reran \cup {"wildfire"} ELSE reran
        /\ UNCHANGED <<incidents_csv, rainfall_vars, merge_vars>>

----------------------------------------------------------------------------
(* process_and_aggregate_rainfall *)

col_id == <<"i", "d">>
col_county == <<"c", "o", "u", "n", "t", "y">>
col_name == <<"n", "a", "m", "e">>
col_county_name == <<"c", "o", "u", "n", "t", "y", "_", "n", "a", "m", "e">>
col_station_id == <<"s", "t", "a", "t", "i", "o", "n", "_", "i", "d">>
col_station_name == <<"s", "t", "a", "t", "i", "o", "n", "_", "n", "a", "m", "e">>
txt_feet == <<"(", "f", "e", "e", "t", ")">>
txt_rainfall_raw_ == <<"r", "a", "i", "n", "f", "a", "l", "l", "_", "r", "a", "w", "_">>
txt_dot_csv == <<".", "c", "s", "v">>
txt_Unknown == <<"U", "n", "k", "n", "o", "w", "n">>

\* str(col).strip().replace(' ', '_').lower().replace('(feet)', '').replace('"','')
metadata_column(col) ==
    replace(replace(lower(replace(strip(col), <<" ">>, <<"_">>)), txt_feet, <<>>),
            <<"\"">>, <<>>)

\* stations_df.columns = [... for col in stations_df.columns]
metadata_columns(header) == Eager([i \in 1..Len(header) |-> metadata_column(header[i])])

\* the two naming variants of the identifier and county columns: where the
\* columns renamed to station_id and county are, or found = FALSE (KeyError)
station_columns(cols) ==
    IF has_col(cols, col_id) /\ has_col(cols, col_county)
    THEN [found |-> TRUE, id_at |-> col_index(cols, col_id),
          county_at |-> col_index(cols, col_county)]
    ELSE IF has_col(cols, col_name) /\ has_col(cols, col_county_name)
    THEN [found |-> TRUE, id_at |-> col_index(cols, col_name),
          county_at |-> col_index(cols, col_county_name)]
    ELSE [found |-> FALSE, id_at |-> 0, county_at |-> 0]

\* the try block reading the metadata succeeds
metadata_readable(meta) ==
    meta.exists /\ station_columns(metadata_columns(meta.header)).found

station_records(rows, at) ==
    Eager([i \in 1..Len(rows) |->
        [station_id |-> rows[i][at.id_at], county |-> rows[i][at.county_at]]])

\* stations_df[['station_id', 'county']] as a sequence of records
stations_df(meta) == station_records(meta.rows, station_columns(metadata_columns(meta.header)))

\* which of several metadata records of one station to_dict() keeps
dict_entry(hits) == Max(hits)

records_of(stations, id) == {i \in 1..Len(stations) : stations[i].station_id = id}

county_kept(stations, hits) ==
    IF hits = {} \/ isna(stations[dict_entry(hits)].county)
    THEN {}
    ELSE {stations[dict_entry(hits)].county}

\* station_county_map = stations_df.set_index('station_id')['county'].to_dict()
\* applied to one identifier: {} when the identifier is no key or its county
\* is missing, else {county}
station_county_map(stations, id) == county_kept(stations, records_of(stations, id))

month_map ==
    <<"o", "c", "t">> :> 10
    @@ <<"n", "o", "v">> :> 11
    @@ <<"d", "e", "c">> :> 12
    @@ <<"j", "a", "n">> :> 1
    @@ <<"f", "e", "b">> :> 2
    @@ <<"m", "a", "r">> :> 3
    @@ <<"a", "p", "r">> :> 4
    @@ <<"m", "a", "y">> :> 5
    @@ <<"j", "u", "n">> :> 6
    @@ <<"j", "u", "l">> :> 7
    @@ <<"a", "u", "g">> :> 8
    @@ <<"s", "e", "p">> :> 9

\* filename.startswith('rainfall_raw_') and filename.endswith('.csv')
is_raw_file(name) == startswith(name, txt_rainfall_raw_) /\ endswith(name, txt_dot_csv)

\* int(text): {} is a ValueError
int_of(text) == IF all_digits(strip(text)) THEN {nat_of(strip(text))} ELSE {}

last(s) == s[Len(s)]

\* water_year = int(filename.split('_')[-1].replace('.csv', ''))
water_year_of(name) == int_of(replace(last(split(name, "_")), txt_dot_csv, <<>>))

RECURSIVE sorted(_)
sorted(S) == IF S = {} THEN <<>> ELSE <<Min(S)>> \o sorted(S \ {Min(S)})

\* month_cols = [col for col in df.columns if col in month_map]
month_cols(header) == sorted({c \in 1..Len(header) : header[c] \in DOMAIN month_map})

\* calendar_year when October itself is left in the water year
calendar_year_after_october(water_year, month) ==
    IF month > 10 THEN water_year - 1 ELSE water_year

\* the calendar year of a reading of water year W in calendar month m
calendar_year(water_year, month) == IF month >= 10 THEN water_year - 1 ELSE water_year

\* pd.to_numeric(df_long['precip_in'], errors='coerce')
coerce_precip(cell) == to_numeric(cell)

\* df.melt(id_vars=['station_id', 'station_name'], value_vars=month_cols):
\* column after column, the rows in their order
melt(rows, header, cols, id_at, name_at) ==
    Eager([t \in 1..(Len(cols) * Len(rows)) |->
        [station_id |-> rows[((t - 1) % Len(rows)) + 1][id_at],
         station_name |-> rows[((t - 1) % Len(rows)) + 1][name_at],
         month_str |-> header[cols[((t - 1) \div Len(rows)) + 1]],
         precip_in |-> coerce_precip(rows[((t - 1) % Len(rows)) + 1][cols[((t - 1) \div Len(rows)) + 1]])]])

\* dropna(subset=['precip_in']) keeps the row
reported(r) == r.precip_in # {}

\* the month and year columns of one row
dated(r, water_year, month) ==
    [station_id |-> r.station_id, station_name |-> r.station_name,
     year |-> calendar_year(water_year, month), month |-> month,
     precip_in |-> CHOOSE v \in r.precip_in : TRUE]

with_dates(kept, water_year) ==
    Eager([t \in 1..Len(kept) |-> dated(kept[t], water_year, month_map[kept[t].month_str])])

\* one raw file: the melt, the coercion, the dropna and the month and year
\* columns
df_long(file, water_year) ==
    with_dates(SelectSeq(melt(file.rows, file.header, month_cols(file.header),
                              col_index(file.header, col_station_id),
                              col_index(file.header, col_station_name)),
                         reported),
               water_year)

\* what the loop body does with one listed file: "skip", "ValueError" (the
\* file name holds no year), "KeyError" (no station_id or station_name
\* column to melt on) or "append"
file_outcome(file) ==
    IF ~is_raw_file(file.name) THEN "skip"
    ELSE IF water_year_of(file.name) = {} THEN "ValueError"
    ELSE IF ~has_col(file.header, col_station_id) \/ ~has_col(file.header, col_station_name)
    THEN "KeyError"
    ELSE "append"

\* all_monthly_data after the loop over a listing no file of which raises
RECURSIVE all_monthly_data(_)
appended(file, outcome, rest) ==
    IF outcome = "append"
    THEN <<df_long(file, CHOOSE w \in water_year_of(file.name) : TRUE)>> \o all_monthly_data(rest)
    ELSE all_monthly_data(rest)
all_monthly_data(listing) ==
    IF listing = <<>> THEN <<>>
    ELSE appended(Head(listing), file_outcome(Head(listing)), Tail(listing))

\* the exception the loop raises: that of the first listed file raising one
RECURSIVE loop_error(_)
raised(outcome, rest) ==
    IF outcome \in {"ValueError", "KeyError"} THEN outcome ELSE loop_error(rest)
loop_error(listing) ==
    IF listing = <<>> THEN "none" ELSE raised(file_outcome(Head(listing)), Tail(listing))

\* concat when only the frame of the last file listed is kept
concat_last(frames) == IF frames = <<>> THEN <<>> ELSE frames[Len(frames)]

\* pd.concat(all_monthly_data, ignore_index=True)
RECURSIVE concat(_)
concat(frames) == IF frames = <<>> THEN <<>> ELSE Head(frames) \o concat(Tail(frames))

ca_counties ==
    <<<<"A", "l", "a", "m", "e", "d", "a">>,
      <<"A", "l", "p", "i", "n", "e">>,
      <<"A", "m", "a", "d", "o", "r">>,
      <<"B", "u", "t", "t", "e">>,
      <<"C", "a", "l", "a", "v", "e", "r", "a", "s">>,
      <<"C", "o", "l", "u", "s", "a">>,
      <<"C", "o", "n", "t", "r", "a", " ", "C", "o", "s", "t", "a">>,
      <<"D", "e", "l", " ", "N", "o", "r", "t", "e">>,
      <<"E", "l", " ", "D", "o", "r", "a", "d", "o">>,
      <<"F", "r", "e", "s", "n", "o">>,
      <<"G", "l", "e", "n", "n">>,
      <<"H", "u", "m", "b", "o", "l", "d", "t">>,
      <<"I", "m", "p", "e", "r", "i", "a", "l">>,
      <<"I", "n", "y", "o">>,
      <<"K", "e", "r", "n">>,
      <<"K", "i", "n", "g", "s">>,
      <<"L", "a", "k", "e">>,
      <<"L", "a", "s", "s", "e", "n">>,
      <<"L", "o", "s", " ", "A", "n", "g", "e", "l", "e", "s">>,
      <<"M", "a", "d", "e", "r", "a">>,
      <<"M", "a", "r", "i", "n">>,
      <<"M", "a", "r", "i", "p", "o", "s", "a">>,
      <<"M", "e", "n", "d", "o", "c", "i", "n", "o">>,
      <<"M", "e", "r", "c", "e", "d">>,
      <<"M", "o", "d", "o", "c">>,
      <<"M", "o", "n", "o">>,
      <<"M", "o", "n", "t", "e", "r", "e", "y">>,
      <<"N", "a", "p", "a">>,
      <<"N", "e", "v", "a", "d", "a">>,
      <<"O", "r", "a", "n", "g", "e">>,
      <<"P", "l", "a", "c", "e", "r">>,
      <<"P", "l", "u", "m", "a", "s">>,
      <<"R", "i", "v", "e", "r", "s", "i", "d", "e">>,
      <<"S", "a", "c", "r", "a", "m", "e", "n", "t", "o">>,
      <<"S", "a", "n", " ", "B", "e", "n", "i", "t", "o">>,
      <<"S", "a", "n", " ", "B", "e", "r", "n", "a", "r", "d", "i", "n", "o">>,
      <<"S", "a", "n", " ", "D", "i", "e", "g", "o">>,
      <<"S", "a", "n", " ", "F", "r", "a", "n", "c", "i", "s", "c", "o">>,
      <<"S", "a", "n", " ", "J", "o", "a", "q", "u", "i", "n">>,
      <<"S", "a", "n", " ", "L", "u", "i", "s", " ", "O", "b", "i", "s", "p", "o">>,
      <<"S", "a", "n", " ", "M", "a", "t", "e", "o">>,
      <<"S", "a", "n", "t", "a", " ", "B", "a", "r", "b", "a", "r", "a">>,
      <<"S", "a", "n", "t", "a", " ", "C", "l", "a", "r", "a">>,
      <<"S", "a", "n", "t", "a", " ", "C", "r", "u", "z">>,
      <<"S", "h", "a", "s", "t", "a">>,
      <<"S", "i", "e", "r", "r", "a">>,
      <<"S", "i", "s", "k", "i", "y", "o", "u">>,
      <<"S", "o", "l", "a", "n", "o">>,
      <<"S", "o", "n", "o", "m", "a">>,
      <<"S", "t", "a", "n", "i", "s", "l", "a", "u", "s">>,
      <<"S", "u", "t", "t", "e", "r">>,
      <<"T", "e", "h", "a", "m", "a">>,
      <<"T", "r", "i", "n", "i", "t", "y">>,
      <<"T", "u", "l", "a", "r", "e">>,
      <<"T", "u", "o", "l", "u", "m", "n", "e">>,
      <<"V", "e", "n", "t", "u", "r", "a">>,
      <<"Y", "o", "l", "o">>,
      <<"Y", "u", "b", "a">>>>

ca_counties_lower == Eager([k \in 1..Len(ca_counties) |-> lower(ca_counties[k])])

\* the first alternative of county_pattern that matches, whatever the case,
\* at position p of a name given in lower case; 0 when none does
RECURSIVE alternative_at(_, _, _)
alternative_at(lname, p, k) ==
    IF k > Len(ca_counties) THEN 0
    ELSE IF /\ p + Len(ca_counties[k]) - 1 <= Len(lname)
            /\ SubSeq(lname, p, p + Len(ca_counties[k]) - 1) = ca_counties_lower[k]
         THEN k
         ELSE alternative_at(lname, p, k + 1)

\* the leftmost match of county_pattern at or after position p
RECURSIVE search(_, _, _)
matched(station_name, lname, p, k) ==
    IF k # 0 THEN {SubSeq(station_name, p, p + Len(ca_counties[k]) - 1)}
    ELSE search(station_name, lname, p + 1)
search(station_name, lname, p) ==
    IF p > Len(lname) THEN {}
    ELSE matched(station_name, lname, p, alternative_at(lname, p, 1))

\* station_name.str.extract(f'({county_pattern})'): the leftmost match and,
\* there, the first alternative of the list that matches; {} without a match
\* or a name
extract_county(station_name) ==
    IF isna(station_name) THEN {} ELSE search(station_name, lower(station_name), 1)

\* final_df.loc[unmapped, 'county'] = inferred_county.str.title()
inferred_county(station_name) == {title(c) : c \in extract_county(station_name)}

\* final_df['county'].fillna('Unknown')
fill_unknown(county) == IF county = {} THEN txt_Unknown ELSE CHOOSE c \in county : TRUE

\* the county of a row given what the metadata map holds for its station:
\* that county, else the inference from the station name, else 'Unknown'
county_from(mapped, station_name) ==
    IF mapped # {} THEN CHOOSE c \in mapped : TRUE
    ELSE fill_unknown(inferred_county(station_name))

resolve_county(stations, row) ==
    county_from(station_county_map(stations, row.station_id), row.station_name)

\* round(2) on thousandths: to the nearest hundredth, a half to the even one
round_half_even(q, r) ==
    IF r < 5 THEN q * 10
    ELSE IF r > 5 THEN (q + 1) * 10
    ELSE IF q % 2 = 0 THEN q * 10 ELSE (q + 1) * 10
round2(x) == round_half_even(x \div 10, x % 10)

\* final_df with its county column
with_county(stations, final_df) ==
    {[t |-> t, county |-> resolve_county(stations, final_df[t]),
      year |-> final_df[t].year, month |-> final_df[t].month,
      precip_in |-> final_df[t].precip_in] : t \in 1..Len(final_df)}

rainfall_group(rows, k) == {r \in rows : <<r.county, r.year, r.month>> = k}

precip_in_of(group) == round2(Sum([r \in group |-> r.precip_in], group))

rainfall_summary_row(k, group) ==
    [county |-> k[1], year |-> k[2], month |-> k[3], precip_in |-> precip_in_of(group)]

groupby_rainfall(rows) ==
    {rainfall_summary_row(k, rainfall_group(rows, k)) : k \in keys_of(rows)}

\* final_df.groupby(['county', 'year', 'month'])['precip_in'].sum(), rounded
aggregated_df(stations, final_df) == groupby_rainfall(with_county(stations, final_df))

\* unmapped = final_df['county'].isnull() after the map
unmapped(stations, final_df) ==
    {t \in 1..Len(final_df) : station_county_map(stations, final_df[t].station_id) = {}}

\* the run from the concat on.  Compiling county_pattern, whose (?i) flags
\* are not at the start of the expression, is an error for the interpreters
\* that no longer accept them (flags_ok = FALSE) and a warning for the others.
rainfall_mapped(stations, final_df, flags_ok) ==
    IF unmapped(stations, final_df) # {} /\ ~flags_ok
    THEN [report |-> "Traceback: re.error", wrote |-> FALSE, rows |-> {}]
    ELSE [report |-> "Rainfall data processing complete.", wrote |-> TRUE,
          rows |-> aggregated_df(stations, final_df)]

\* the run from the end of the loop over the listing on
rainfall_looped(meta, error, frames, flags_ok) ==
    IF error # "none"
    THEN [report |-> "Traceback: " \o error, wrote |-> FALSE, rows |-> {}]
    ELSE IF frames = <<>>
    THEN [report |-> "No raw rainfall data found to process.", wrote |-> FALSE, rows |-> {}]
    ELSE rainfall_mapped(stations_df(meta), concat(frames), flags_ok)

\* One run of process_and_aggregate_rainfall on the metadata file and on the
\* directory as os.listdir lists it: what it prints last and the table it
\* writes, if it writes one
rainfall_run(meta, listing, flags_ok) ==
    IF ~metadata_readable(meta)
    THEN [report |-> "Error reading station metadata file", wrote |-> FALSE, rows |-> {}]
    ELSE rainfall_looped(meta, loop_error(listing),
                         IF loop_error(listing) = "none" THEN all_monthly_data(listing) ELSE <<>>,
                         flags_ok)

\* os.listdir(raw_data_dir): the files of the directory in any order
RECURSIVE listings(_)
listings(dir) ==
    IF dir = {} THEN {<<>>}
    ELSE UNION {{<<f>> \o l : l \in listings(dir \ {f})} : f \in dir}

\* aggregated_df.to_csv(output_file, index=False), when the run gets there
rainfall_output(run, before) ==
    IF run.wrote THEN [exists |-> TRUE, rows |-> run.rows] ELSE before

rainfall_effect(run) ==
    /\ rainfall_report' = run.report
    /\ rainfall_monthly' = rainfall_output(run, rainfall_monthly)
    /\ reran' = IF rainfall_report = "Rainfall data processing complete."
                THEN reran \cup {"rainfall"} ELSE reran
    /\ UNCHANGED <<station_metadata, raw_rainfall_dir, re_inline_flags_ok,
                   wildfire_vars, merge_vars>>

process_and_aggregate_rainfall ==
    \E listing \in listings(raw_rainfall_dir) :
        LET run == rainfall_run(station_metadata, listing, re_inline_flags_ok)
        IN  rainfall_effect(run)

----------------------------------------------------------------------------
(* merge_datasets *)

\* standardize without the title-casing
standardize_strip_only(county) == IF isna(county) THEN {} ELSE {strip(county)}

\* df['county'].str.strip().str.title() on one cell: {} for a cell read as
\* missing
standardize(county) == IF isna(county) THEN {} ELSE {title(strip(county))}

\* pd.read_csv of an aggregate with its county column standardized
standardized(rows) == {[row |-> r, county |-> standardize(r.county)] : r \in rows}

\* the keys groupby(['county', 'year', 'month']) forms: a row whose county is
\* missing belongs to no group
group_keys(std) == UNION {{<<c, x.row.year, x.row.month>> : c \in x.county} : x \in std}

group_of(std, k) == {x \in std : x.county = {k[1]} /\ x.row.year = k[2] /\ x.row.month = k[3]}

wildfire_sums(group) ==
    [incident_count |-> Sum([x \in group |-> x.row.incident_count], group),
     acres_burned |-> Sum([x \in group |-> x.row.acres_burned], group)]

rainfall_sums(group) == [precip_in |-> Sum([x \in group |-> x.row.precip_in], group)]

wildfire_groups(std) == [k \in group_keys(std) |-> wildfire_sums(group_of(std, k))]
rainfall_groups(std) == [k \in group_keys(std) |-> rainfall_sums(group_of(std, k))]

\* .groupby([...]).agg({'incident_count': 'sum', 'acres_burned': 'sum'})
wildfire_agg(rows) == wildfire_groups(standardized(rows))

\* .groupby([...]).agg({'precip_in': 'sum'})
rainfall_agg(rows) == rainfall_groups(standardized(rows))

\* merged_keys when the merge is a left join
merged_keys_left(left_keys, right_keys) == left_keys

\* the keys of pd.merge(wildfire_agg, rainfall_agg, on=[...], how='outer')
merged_keys(left_keys, right_keys) == left_keys \cup right_keys

\* the value left in a filled column: .fillna(0) where the merge left NaN
fillna0(present, value) == IF present THEN value ELSE 0

merged_row(k, left, right) ==
    [county |-> k[1], year |-> k[2], month |-> k[3],
     incident_count |->
         fillna0(k \in DOMAIN left, IF k \in DOMAIN left THEN left[k].incident_count ELSE 0),
     acres_burned |->
         fillna0(k \in DOMAIN left, IF k \in DOMAIN left THEN left[k].acres_burned ELSE 0),
     precip_in |->
         fillna0(k \in DOMAIN right, IF k \in DOMAIN right THEN right[k].precip_in ELSE 0)]

merge_outer(left, right) ==
    {merged_row(k, left, right) : k \in merged_keys(DOMAIN left, DOMAIN right)}

\* pd.merge(..., how='outer') and the three fillna(0)
merged_df(wildfire_rows, rainfall_rows) ==
    merge_outer(wildfire_agg(wildfire_rows), rainfall_agg(rainfall_rows))

\* One run of merge_datasets: what it prints last and the table it writes, if
\* it writes one.  A missing input is the FileNotFoundError of read_csv, a
\* county column without a text the AttributeError of .str, both caught by
\* the except clause.
merge_run(wildfire, rainfall) ==
    IF ~wildfire.exists \/ ~rainfall.exists
    THEN [report |-> "Error merging datasets", wrote |-> FALSE, rows |-> {}]
    ELSE IF \/ ~str_accessor({r.county : r \in wildfire.rows})
            \/ ~str_accessor({r.county : r \in rainfall.rows})
    THEN [report |-> "Error merging datasets", wrote |-> FALSE, rows |-> {}]
    ELSE [report |-> "Datasets merged successfully.", wrote |-> TRUE,
          rows |-> merged_df(wildfire.rows, rainfall.rows)]

\* merge_output when the table is added to the file already there
merge_output_append(run, before) ==
    IF run.wrote THEN [exists |-> TRUE, rows |-> before.rows \cup run.rows] ELSE before

\* merged_df.to_csv(output_file, index=False), when the run gets there
merge_output(run, before) ==
    IF run.wrote THEN [exists |-> TRUE, rows |-> run.rows] ELSE before

merge_datasets ==
    LET run == merge_run(wildfire_monthly, rainfall_monthly)
    IN  /\ merge_report' = run.report
        /\ analysis_csv' = merge_output(run, analysis_csv)
        /\ reran' = IF merge_report = "Datasets merged successfully."
                    THEN reran \cup {"merge"} ELSE reran
        /\ UNCHANGED <<wildfire_vars, rainfall_vars>>

----------------------------------------------------------------------------
(* Raw incident files of the model *)

raw_Incident_Name == <<" ", "I", "n", "c", "i", "d", "e", "n", "t", "_", "N", "a", "m", "e">>
raw_INCIDENT_COUNTY == <<"I", "N", "C", "I", "D", "E", "N", "T", "_", "C", "O", "U", "N", "T", "Y", " ">>
raw_Incident_DateOnly_Created == <<"I", "n", "c", "i", "d", "e", "n", "t", "_", "D", "a", "t", "e", "O", "n", "l", "y", "_", "C", "r", "e", "a", "t", "e", "d">>
raw_Incident_Acres_Burned == <<" ", "I", "n", "c", "i", "d", "e", "n", "t", "_", "A", "c", "r", "e", "s", "_", "B", "u", "r", "n", "e", "d", " ">>
txt_Glass == <<"G", "l", "a", "s", "s">>
txt_Kincade == <<"K", "i", "n", "c", "a", "d", "e">>
txt_Napa == <<"N", "a", "p", "a">>
txt_Kern == <<"K", "e", "r", "n">>
txt_napa_KERN == <<" ", "n", "a", "p", "a", ",", " ", "K", "E", "R", "N">>
txt_2020_07_15 == <<"2", "0", "2", "0", "-", "0", "7", "-", "1", "5">>
txt_2019_11_02 == <<"2", "0", "1", "9", "-", "1", "1", "-", "0", "2">>
txt_2020_13_01 == <<"2", "0", "2", "0", "-", "1", "3", "-", "0", "1">>
txt_100_5 == <<"1", "0", "0", ".", "5">>
txt_minus5 == <<"-", "5">>
txt_40 == <<"4", "0">>
txt_7 == <<"7">>
txt_abc == <<"a", "b", "c">>

\* the header as the export writes it, and as the code still accepts it
IncidentHeader == <<raw_Incident_Name, raw_INCIDENT_COUNTY,
                    raw_Incident_DateOnly_Created, raw_Incident_Acres_Burned>>

\* well-formed incidents: with or without a name, one county or two, a
\* positive or a negative acreage
GoodIncidents ==
    {<<n, c, txt_2020_07_15, a>> :
        n \in {txt_Glass, <<>>}, c \in {txt_Napa, txt_napa_KERN},
        a \in {txt_100_5, txt_minus5}}
    \cup {<<txt_Kincade, txt_Kern, txt_2019_11_02, txt_7>>}

\* malformed incidents: a non-numeric acreage, a missing county, an
\* unparseable date, a missing date
MalformedIncidents ==
    {<<txt_Glass, txt_Napa, txt_2020_07_15, txt_abc>>,
     <<txt_Glass, <<>>, txt_2020_07_15, txt_40>>,
     <<txt_Glass, txt_Napa, txt_2020_13_01, txt_40>>,
     <<txt_Glass, txt_Napa, <<>>, txt_40>>}

\* a table without its k-th column
cut(s, k) == SubSeq(s, 1, k - 1) \o SubSeq(s, k + 1, Len(s))
without_column(t, k) ==
    [exists |-> t.exists, header |-> cut(t.header, k),
     rows |-> Eager([i \in 1..Len(t.rows) |-> cut(t.rows[i], k)])]

IncidentFiles ==
    LET full == {[exists |-> TRUE, header |-> IncidentHeader, rows |-> rs] :
                    rs \in SeqUpTo(GoodIncidents \cup MalformedIncidents, MaxIncidents)}
    IN  {NoTable} \cup full
        \cup {without_column(t, k) : t \in full, k \in {1, 4}}

\* what an earlier run on other raw data left behind
EarlierIncidents ==
    [exists |-> TRUE, header |-> IncidentHeader,
     rows |-> <<<<txt_Kincade, txt_Kern, txt_2019_11_02, txt_7>>>>]
EarlierWildfireMonthly == [exists |-> TRUE, rows |-> wildfire_run(EarlierIncidents).rows]

\* a well-formed incident and one whose acreage is no number
MixedIncidents ==
    [exists |-> TRUE, header |-> IncidentHeader,
     rows |-> <<<<txt_Glass, txt_napa_KERN, txt_2020_07_15, txt_100_5>>,
                <<txt_Glass, txt_Napa, txt_2020_07_15, txt_abc>>>>]

----------------------------------------------------------------------------
(* Station metadata and raw rainfall files of the model *)

raw_ID == <<" ", "I", "D">>
raw_County == <<"C", "o", "u", "n", "t", "y">>
raw_Name == <<"N", "a", "m", "e">>
raw_County_Name == <<"C", "o", "u", "n", "t", "y", " ", "N", "a", "m", "e">>
raw_Station == <<"S", "t", "a", "t", "i", "o", "n">>
file_2015 == <<"r", "a", "i", "n", "f", "a", "l", "l", "_", "r", "a", "w", "_", "2", "0", "1", "5", ".", "c", "s", "v">>
file_2016 == <<"r", "a", "i", "n", "f", "a", "l", "l", "_", "r", "a", "w", "_", "2", "0", "1", "6", ".", "c", "s", "v">>
file_notes == <<"n", "o", "t", "e", "s", ".", "t", "x", "t">>
file_backup == <<"r", "a", "i", "n", "f", "a", "l", "l", "_", "r", "a", "w", "_", "2", "0", "1", "5", "_", "b", "a", "c", "k", "u", "p", ".", "c", "s", "v">>
sta_NAP == <<"N", "A", "P">>
sta_XYZ == <<"X", "Y", "Z">>
txt_NAPA_RIVER == <<"N", "A", "P", "A", " ", "R", "I", "V", "E", "R">>
txt_Kern_Canyon == <<"K", "e", "r", "n", " ", "C", "a", "n", "y", "o", "n">>
txt_Blue_Gauge == <<"B", "l", "u", "e", " ", "G", "a", "u", "g", "e">>
txt_KERN_sp == <<"K", "E", "R", "N", " ">>
txt_napa_lake == <<"n", "a", "p", "a", " ", "l", "a", "k", "e">>
txt_1_005 == <<"1", ".", "0", "0", "5">>
txt_2_5 == <<"2", ".", "5">>
txt_dashes == <<"-", "-">>
txt_0_25 == <<"0", ".", "2", "5">>
txt_0_125 == <<"0", ".", "1", "2", "5">>
txt_3 == <<"3">>
txt_minus0_4 == <<"-", "0", ".", "4">>
col_oct == <<"o", "c", "t">>
col_jan == <<"j", "a", "n">>

\* metadata records [identifier, county]: station NAP with its county, with
\* another spelling of another county, with no county; station XYZ
StationRecords ==
    {<<sta_NAP, txt_Napa>>, <<sta_NAP, txt_KERN_sp>>, <<sta_NAP, <<>>>>, <<sta_XYZ, txt_Kern>>}

NapaMetadata ==
    [exists |-> TRUE, header |-> <<raw_ID, raw_County>>, rows |-> <<<<sta_NAP, txt_Napa>>>>]

\* a header offering neither naming variant of the identifier column
UnrecognizedMetadata ==
    [exists |-> TRUE, header |-> <<raw_Station, raw_County>>, rows |-> <<<<sta_NAP, txt_Napa>>>>]

\* the two recognized naming variants, a header offering neither, no file
MetadataFiles ==
    {[exists |-> TRUE, header |-> <<raw_ID, raw_County>>, rows |-> rs] :
        rs \in SeqUpTo(StationRecords, MaxStationRows)}
    \cup {[exists |-> TRUE, header |-> <<raw_Name, raw_County_Name>>,
           rows |-> <<<<sta_NAP, txt_Napa>>>>],
          UnrecognizedMetadata, NoTable}

RawHeader == <<col_station_id, col_station_name, col_oct, col_jan>>

\* station rows [station_id, station_name, oct, jan]: a station of the
\* metadata with an entry that is no number, a station the metadata does not
\* know whose name holds a county, the same station under a name that holds
\* none, with a negative reading
StationRows ==
    {<<sta_NAP, txt_NAPA_RIVER, txt_1_005, txt_dashes>>,
     <<sta_XYZ, txt_Kern_Canyon, txt_0_125, txt_2_5>>,
     <<sta_XYZ, txt_Blue_Gauge, txt_3, txt_minus0_4>>}

RawFiles(name) ==
    {[name |-> name, header |-> RawHeader, rows |-> rs] :
        rs \in SeqUpTo(StationRows, MaxStationRows)}

\* a file that is no raw table, a raw table whose name ends in no year
NotesFile == [name |-> file_notes, header |-> <<>>, rows |-> <<>>]
BackupFile ==
    [name |-> file_backup, header |-> RawHeader,
     rows |-> <<<<sta_NAP, txt_NAPA_RIVER, txt_1_005, txt_dashes>>>>]

RawDirs ==
    LET named == RawFiles(file_2015) \cup RawFiles(file_2016) \cup {NotesFile, BackupFile}
    IN  {d \in SubsetsUpTo(named, MaxRawFiles) : \A x, y \in d : x.name = y.name => x = y}

RichDir ==
    {[name |-> file_2015, header |-> RawHeader,
      rows |-> <<<<sta_NAP, txt_NAPA_RIVER, txt_1_005, txt_dashes>>,
                 <<sta_XYZ, txt_Kern_Canyon, txt_0_125, txt_2_5>>>>],
     [name |-> file_2016, header |-> RawHeader,
      rows |-> <<<<sta_XYZ, txt_Blue_Gauge, txt_3, txt_minus0_4>>>>]}

\* directories of one water year whose station, unknown to the metadata, has
\* a name holding two county names, the county listed first coming second
InferenceDirs ==
    {{[name |-> file_2015, header |-> RawHeader, rows |-> rs]} :
        rs \in {<<<<sta_XYZ, txt_napa_lake, txt_3, txt_2_5>>>>,
                <<<<sta_XYZ, txt_napa_lake, txt_3, txt_2_5>>,
                  <<sta_XYZ, txt_Blue_Gauge, txt_3, txt_minus0_4>>>>}}

\* what an earlier run on other raw data left behind
EarlierRainfallMonthly ==
    [exists |-> TRUE,
     rows |-> aggregated_df(stations_df(NapaMetadata),
                            df_long(BackupFile, 2014))]

----------------------------------------------------------------------------
(* Aggregate files of the model, for merge_datasets alone *)

txt_Los_Angeles == <<"L", "o", "s", " ", "A", "n", "g", "e", "l", "e", "s">>
txt_LOS_ANGELES == <<"L", "O", "S", " ", "A", "N", "G", "E", "L", "E", "S">>
txt_los_angeles_sp == <<" ", "l", "o", "s", " ", "a", "n", "g", "e", "l", "e", "s", " ">>

WildfireAggRows ==
    {[county |-> txt_Los_Angeles, year |-> 2020, month |-> 7, incident_count |-> 1, acres_burned |-> 100000],
     [county |-> txt_LOS_ANGELES, year |-> 2020, month |-> 7, incident_count |-> 2, acres_burned |-> 50500],
     [county |-> txt_los_angeles_sp, year |-> 2020, month |-> 7, incident_count |-> 1, acres_burned |-> 7000],
     [county |-> txt_Napa, year |-> 2020, month |-> 7, incident_count |-> 3, acres_burned |-> 40000],
     [county |-> <<>>, year |-> 2020, month |-> 7, incident_count |-> 1, acres_burned |-> 5000]}

RainfallAggRows ==
    {[county |-> txt_Los_Angeles, year |-> 2020, month |-> 7, precip_in |-> 1250],
     [county |-> txt_LOS_ANGELES, year |-> 2020, month |-> 7, precip_in |-> 300],
     [county |-> txt_los_angeles_sp, year |-> 2020, month |-> 8, precip_in |-> 20],
     [county |-> txt_Napa, year |-> 2020, month |-> 8, precip_in |-> 2000],
     [county |-> <<>>, year |-> 2020, month |-> 8, precip_in |-> 10]}

AggregateFiles(pool) ==
    {NoAggregate}
    \cup {[exists |-> TRUE, rows |-> rs] : rs \in SubsetsUpTo(pool, MaxAggRows)}

----------------------------------------------------------------------------
(* Specifications *)

wildfire_idle ==
    /\ incidents_csv = NoTable
    /\ wildfire_monthly \in {NoAggregate, EarlierWildfireMonthly}
    /\ wildfire_report = "not run"

rainfall_idle ==
    /\ station_metadata = NoTable
    /\ raw_rainfall_dir = {}
    /\ rainfall_monthly \in {NoAggregate, EarlierRainfallMonthly}
    /\ rainfall_report = "not run"
    /\ re_inline_flags_ok = TRUE

merge_idle ==
    /\ analysis_csv = NoAggregate
    /\ merge_report = "not run"
    /\ reran = {}

\* every raw incident file of the model, with or without an earlier output
wildfire_inputs ==
    /\ incidents_csv \in IncidentFiles
    /\ wildfire_monthly \in {NoAggregate, EarlierWildfireMonthly}
    /\ wildfire_report = "not run"

\* every metadata file of the model with one directory, every directory of
\* the model with one metadata file, with or without an earlier output
rainfall_inputs ==
    /\ \/ station_metadata \in MetadataFiles /\ raw_rainfall_dir = RichDir
       \/ station_metadata = NapaMetadata /\ raw_rainfall_dir \in RawDirs \cup InferenceDirs
    /\ rainfall_monthly \in {NoAggregate, EarlierRainfallMonthly}
    /\ rainfall_report = "not run"
    /\ re_inline_flags_ok \in BOOLEAN

\* the wildfire stage alone
InitWildfire == wildfire_inputs /\ rainfall_idle /\ rainfall_monthly = NoAggregate /\ merge_idle

\* the rainfall stage alone
InitRainfall == wildfire_idle /\ wildfire_monthly = NoAggregate /\ rainfall_inputs /\ merge_idle

\* the merge alone, on every pair of aggregate files of the model
InitMerge ==
    /\ incidents_csv = NoTable
    /\ wildfire_monthly \in AggregateFiles(WildfireAggRows)
    /\ wildfire_report = "not run"
    /\ station_metadata = NoTable
    /\ raw_rainfall_dir = {}
    /\ rainfall_monthly \in AggregateFiles(RainfallAggRows)
    /\ rainfall_report = "not run"
    /\ re_inline_flags_ok = TRUE
    /\ merge_idle

SpecWildfire == InitWildfire /\ [][process_wildfire_data]_vars

SpecRainfall == InitRainfall /\ [][process_and_aggregate_rainfall]_vars

SpecMerge == InitMerge /\ [][merge_datasets]_vars

\* both stages on a few inputs: no file, sound files, a file whose columns
\* are not the expected ones
both_inputs ==
    /\ incidents_csv \in {NoTable, EarlierIncidents, MixedIncidents,
                          without_column(EarlierIncidents, 4)}
    /\ wildfire_monthly \in {NoAggregate, EarlierWildfireMonthly}
    /\ wildfire_report = "not run"
    /\ station_metadata \in {NoTable, NapaMetadata, UnrecognizedMetadata}
    /\ raw_rainfall_dir = RichDir
    /\ rainfall_monthly \in {NoAggregate, EarlierRainfallMonthly}
    /\ rainfall_report = "not run"
    /\ re_inline_flags_ok \in BOOLEAN

\* the two normalizer stages: each on its inputs while the other has none,
\* and both on a few inputs
InitNormalizers ==
    \/ wildfire_inputs /\ rainfall_idle /\ merge_idle
    \/ wildfire_idle /\ rainfall_inputs /\ merge_idle
    \/ both_inputs /\ merge_idle

NextNormalizers == process_wildfire_data \/ process_and_aggregate_rainfall

SpecNormalizers == InitNormalizers /\ [][NextNormalizers]_vars

\* the raw inputs of the whole pipeline: no incident file, an empty one, or
\* one well-formed incident
PipelineIncidentFiles ==
    {NoTable, [exists |-> TRUE, header |-> IncidentHeader, rows |-> <<>>]}
    \cup {[exists |-> TRUE, header |-> IncidentHeader, rows |-> <<r>>] : r \in GoodIncidents}

\* an empty directory, one holding no raw table, one holding one station
\* row, the directory of two water years
PipelineDirs ==
    {{}, {NotesFile}, RichDir}
    \cup {{[name |-> file_2015, header |-> RawHeader, rows |-> <<r>>]} : r \in StationRows}

\* the three scripts, run in any order and any number of times, on raw inputs
\* that do not change, with or without the aggregates of an earlier run
Init ==
    /\ incidents_csv \in PipelineIncidentFiles
    /\ wildfire_monthly \in {NoAggregate, EarlierWildfireMonthly}
    /\ wildfire_report = "not run"
    /\ station_metadata \in {NapaMetadata, UnrecognizedMetadata}
    /\ raw_rainfall_dir \in PipelineDirs
    /\ rainfall_monthly \in {NoAggregate, EarlierRainfallMonthly}
    /\ rainfall_report = "not run"
    /\ re_inline_flags_ok \in BOOLEAN
    /\ merge_idle

Next == process_wildfire_data \/ process_and_aggregate_rainfall \/ merge_datasets

Spec == Init /\ [][Next]_vars

----------------------------------------------------------------------------
(* Properties of merge_datasets *)

merged == merge_report = "Datasets merged successfully."

\* the key of an aggregate row under the canonical spelling of its county
canonical_key(r) == <<title(strip(r.county)), r.year, r.month>>

\* the rows of an aggregate that name a county
keyed(rows) == {r \in rows : ~isna(r.county)}

input_keys(rows) == {canonical_key(r) : r \in keyed(rows)}

rows_under(rows, k) == {r \in keyed(rows) : canonical_key(r) = k}

supplied_incident_count(rows, k) == Sum([r \in rows_under(rows, k) |-> r.incident_count], rows_under(rows, k))
supplied_acres_burned(rows, k) == Sum([r \in rows_under(rows, k) |-> r.acres_burned], rows_under(rows, k))
supplied_precip_in(rows, k) == Sum([r \in rows_under(rows, k) |-> r.precip_in], rows_under(rows, k))

\* what the full outer join holds under key k
outer_row(k, wildfire_rows, rainfall_rows) ==
    [county |-> k[1], year |-> k[2], month |-> k[3],
     incident_count |-> IF k \in input_keys(wildfire_rows)
                        THEN supplied_incident_count(wildfire_rows, k) ELSE 0,
     acres_burned |-> IF k \in input_keys(wildfire_rows)
                      THEN supplied_acres_burned(wildfire_rows, k) ELSE 0,
     precip_in |-> IF k \in input_keys(rainfall_rows)
                   THEN supplied_precip_in(rainfall_rows, k) ELSE 0]

LosAngelesSpellings == {txt_Los_Angeles, txt_LOS_ANGELES, txt_los_angeles_sp}

spelled(rows, year, month) ==
    {r \in rows : r.county \in LosAngelesSpellings /\ r.year = year /\ r.month = month}

\* C5: once merge_datasets has merged two aggregates, no two rows of the
\* merged table have keys that differ only in the case of the county or in
\* the whitespace around it, and the rows that spell Los Angeles in any of
\* its three spellings, in either aggregate, are one merged row per year and
\* month under "Los Angeles" holding the sums of their metrics.
C5_CanonicalJoinKey ==
    merged =>
        /\ \A r1, r2 \in analysis_csv.rows :
              (/\ lower(strip(r1.county)) = lower(strip(r2.county))
               /\ r1.year = r2.year
               /\ r1.month = r2.month) => r1 = r2
        /\ \A year \in {2020}, month \in {7, 8} :
              spelled(wildfire_monthly.rows, year, month)
                  \cup spelled(rainfall_monthly.rows, year, month) # {}
              => [county |-> txt_Los_Angeles, year |-> year, month |-> month,
                  incident_count |->
                      Sum([r \in spelled(wildfire_monthly.rows, year, month) |-> r.incident_count],
                          spelled(wildfire_monthly.rows, year, month)),
                  acres_burned |->
                      Sum([r \in spelled(wildfire_monthly.rows, year, month) |-> r.acres_burned],
                          spelled(wildfire_monthly.rows, year, month)),
                  precip_in |->
                      Sum([r \in spelled(rainfall_monthly.rows, year, month) |-> r.precip_in],
                          spelled(rainfall_monthly.rows, year, month))] \in analysis_csv.rows

\* two spellings in the wildfire aggregate and a third in the rainfall
\* aggregate, merged into the one row of Los Angeles for July 2020
C5_SpellingsMerged ==
    /\ merged
    /\ {r.county : r \in spelled(wildfire_monthly.rows, 2020, 7)} =
          {txt_LOS_ANGELES, txt_los_angeles_sp}
    /\ {r.county : r \in spelled(rainfall_monthly.rows, 2020, 7)} = {txt_Los_Angeles}
    /\ [county |-> txt_Los_Angeles, year |-> 2020, month |-> 7,
        incident_count |-> 3, acres_burned |-> 57500, precip_in |-> 1250] \in analysis_csv.rows

----------------------------------------------------------------------------
(* Properties of process_wildfire_data *)

wildfire_done == wildfire_report = "Wildfire data processing complete."

\* the raw incidents under the normalized column names
incidents == wildfire_frame(incidents_csv.rows, wildfire_columns(incidents_csv.header))

\* an incident with a numeric acreage, a county field and a creation date
\* that parses
well_formed(incident) ==
    /\ to_numeric(incident.incident_acres_burned) # {}
    /\ ~isna(incident.incident_county)
    /\ to_datetime(incident.incident_dateonly_created) # {}

counties_listed(incident) == split(incident.incident_county, ",")

acres_of(incident) == CHOOSE a \in to_numeric(incident.incident_acres_burned) : TRUE
created(incident) == CHOOSE d \in to_datetime(incident.incident_dateonly_created) : TRUE

\* the key the j-th listed county of an incident contributes to
key_listed(incident, j) ==
    <<title(strip(counties_listed(incident)[j])), created(incident).year, created(incident).month>>

\* the listings <<incident, position>> of the well-formed incidents of df
\* that contribute to key k
contributors(df, k) ==
    UNION {{<<i, j>> : j \in {j \in 1..Len(counties_listed(df[i])) : key_listed(df[i], j) = k}} :
              i \in {i \in 1..Len(df) : well_formed(df[i])}}

\* the row of key k when every listing contributes one incident and the full
\* acreage of its incident
full_row(df, k) ==
    [county |-> k[1], year |-> k[2], month |-> k[3],
     incident_count |-> Cardinality(contributors(df, k)),
     acres_burned |-> Sum([p \in contributors(df, k) |-> acres_of(df[p[1]])], contributors(df, k))]

\* C2: once process_wildfire_data has completed, every county a well-formed
\* incident lists has a row for the incident's year and month, and that row
\* counts one incident and the full acreage of the incident for every
\* listing that contributes to it.
C2_MultiCountyExplosion ==
    wildfire_done =>
        \A i \in {i \in 1..Len(incidents) : well_formed(incidents[i])} :
            \A j \in 1..Len(counties_listed(incidents[i])) :
                full_row(incidents, key_listed(incidents[i], j)) \in wildfire_monthly.rows

\* C13: once process_wildfire_data has completed, every row of the
\* aggregate counts the post-explosion rows of its county, year and month,
\* those of incidents without a name included, and sums their acreage.
C13_GroupCountAndSum ==
    wildfire_done =>
        \A r \in wildfire_monthly.rows :
            /\ r.incident_count = Cardinality(contributors(incidents, <<r.county, r.year, r.month>>))
            /\ r.acres_burned = full_row(incidents, <<r.county, r.year, r.month>>).acres_burned

\* a completed run on a file with a well-formed incident that has no name
C13_UnnamedIncidentRetained ==
    /\ wildfire_done
    /\ \E i \in 1..Len(incidents) : well_formed(incidents[i]) /\ isna(incidents[i].incident_name)
    /\ wildfire_monthly.rows # {}

----------------------------------------------------------------------------
(* Properties of process_and_aggregate_rainfall *)

rainfall_done == rainfall_report = "Rainfall data processing complete."

\* the raw per-water-year tables of a directory
raw_tables(dir) == {f \in dir : is_raw_file(f.name)}

\* every raw table is named after a water year and has its station columns
raw_tables_sound(dir) ==
    \A f \in raw_tables(dir) :
        /\ water_year_of(f.name) # {}
        /\ has_col(f.header, col_station_id)
        /\ has_col(f.header, col_station_name)

\* the numeric readings of one raw table: one per station row and
\* fiscal-month column whose entry is a number
readings_of(f) ==
    UNION {{[file |-> f.name, row |-> i, column |-> f.header[c],
             station_id |-> f.rows[i][col_index(f.header, col_station_id)],
             station_name |-> f.rows[i][col_index(f.header, col_station_name)],
             water_year |-> CHOOSE w \in water_year_of(f.name) : TRUE,
             inches |-> CHOOSE v \in to_numeric(f.rows[i][c]) : TRUE] :
               c \in {c \in 1..Len(f.header) :
                        f.header[c] \in DOMAIN month_map /\ to_numeric(f.rows[i][c]) # {}}} :
           i \in 1..Len(f.rows)}

readings(dir) == UNION {readings_of(f) : f \in raw_tables(dir)}

\* the calendar year of a reading of month m: the water year starts in
\* October of the calendar year before
year_read(water_year, m) == IF m \in {10, 11, 12} THEN water_year - 1 ELSE water_year

\* a reading with the county the stage resolves its station to and with its
\* calendar month and year
placed(stations, x) ==
    [reading |-> x,
     county |-> resolve_county(stations, x),
     year |-> year_read(x.water_year, month_map[x.column]),
     month |-> month_map[x.column]]

placed_readings(stations, xs) == {placed(stations, x) : x \in xs}

under(ps, county, year, month) ==
    {p \in ps : p.county = county /\ p.year = year /\ p.month = month}

inches_of(ps) == round2(Sum([p \in ps |-> p.reading.inches], ps))

\* the rows are the sums of the readings ps, key by key
sums_of(ps, rows) ==
    /\ \A p \in ps : \E r \in rows : r.county = p.county /\ r.year = p.year /\ r.month = p.month
    /\ \A r \in rows :
          /\ under(ps, r.county, r.year, r.month) # {}
          /\ r.precip_in = inches_of(under(ps, r.county, r.year, r.month))

\* the numeric readings of the directory, placed
placed_now == placed_readings(stations_df(station_metadata), readings(raw_rainfall_dir))

\* C3: once process_and_aggregate_rainfall has completed, every numeric
\* reading of the file of water year W is summed under the calendar month of
\* its column and under calendar year W-1 when that month is 10, 11 or 12
\* and W otherwise, and the aggregate holds nothing else.
C3_WaterYearConversion == rainfall_done => sums_of(placed_now, rainfall_monthly.rows)

\* a row of the water-year-2015 file whose "Oct" reading is under 2014,
\* month 10, and whose "Jan" reading is under 2015, month 1
C3_OctoberInPreviousYear ==
    /\ rainfall_done
    /\ \E x \in readings(raw_rainfall_dir) :
          x.water_year = 2015 /\ x.station_name = txt_Kern_Canyon /\ x.column = col_oct
    /\ \A x \in readings(raw_rainfall_dir) : x.water_year = 2015
    /\ \E r \in rainfall_monthly.rows : r.county = txt_Kern /\ r.year = 2014 /\ r.month = 10
    /\ \E r \in rainfall_monthly.rows : r.county = txt_Kern /\ r.year = 2015 /\ r.month = 1

\* a reading of a station that the metadata does not list and whose name
\* holds no county name
unresolved(stations, x) ==
    /\ \A i \in 1..Len(stations) : stations[i].station_id # x.station_id
    /\ extract_county(x.station_name) = {}

\* the rows hold, for every unresolved reading among ps, the sum of its
\* year and month under "Unknown"
bucketed(stations, ps, rows) ==
    \A p \in {p \in ps : unresolved(stations, p.reading)} :
        [county |-> txt_Unknown, year |-> p.year, month |-> p.month,
         precip_in |-> inches_of(under(ps, txt_Unknown, p.year, p.month))] \in rows

\* C4: once process_and_aggregate_rainfall has run on readable metadata and
\* sound raw tables, every numeric reading of a station absent from the
\* metadata whose name holds no county name is in the aggregate, summed
\* under county "Unknown" for its calendar year and month.
C4_UnknownBucket ==
    (/\ rainfall_report # "not run"
     /\ metadata_readable(station_metadata)
     /\ raw_tables_sound(raw_rainfall_dir)) =>
        bucketed(stations_df(station_metadata), placed_now, rainfall_monthly.rows)


\* the counties the metadata declares for a station
declared_counties(stations, id) ==
    {stations[i].county : i \in {i \in records_of(stations, id) : ~isna(stations[i].county)}}

\* the readings among ps placed under a spelling of county c
under_spellings(ps, c, year, month) ==
    {p \in ps : title(strip(p.county)) = title(strip(c)) /\ p.year = year /\ p.month = month}

\* the rows hold, for every reading among ps of a station with a declared
\* county, the row of a declared county in canonical spelling that sums the
\* readings of every spelling of it
canonical_rows(stations, ps, rows) ==
    \A p \in ps :
        declared_counties(stations, p.reading.station_id) # {} =>
            \E c \in declared_counties(stations, p.reading.station_id) :
                [county |-> title(strip(c)), year |-> p.year, month |-> p.month,
                 precip_in |-> inches_of(under_spellings(ps, c, p.year, p.month))] \in rows

\* C11: once process_and_aggregate_rainfall has completed, every reading of
\* a station with a county in the metadata is in the row of that county
\* trimmed and title-cased, and that row sums the readings of the stations
\* whose metadata counties differ only in case or surrounding whitespace.
C11_CanonicalStationCounty ==
    rainfall_done => canonical_rows(stations_df(station_metadata), placed_now, rainfall_monthly.rows)

\* two stations whose declared counties are spellings of one county, both
\* with readings of one month, after a completed run
C11_TwoSpellingsDeclared ==
    /\ rainfall_done
    /\ station_metadata.rows = <<<<sta_NAP, txt_KERN_sp>>, <<sta_XYZ, txt_Kern>>>>
    /\ \E p, q \in placed_now :
          /\ p.reading.station_id = sta_NAP /\ q.reading.station_id = sta_XYZ
          /\ p.year = q.year /\ p.month = q.month

\* the county of the first metadata record of a station that declares one
first_declared(stations, id) ==
    stations[Min({i \in records_of(stations, id) : ~isna(stations[i].county)})].county

\* a reading under the county its station's first declaring record gives
\* it, and under the county of the stage when no record declares one
placed_first(stations, x) ==
    [reading |-> x,
     county |-> IF declared_counties(stations, x.station_id) # {}
                THEN first_declared(stations, x.station_id)
                ELSE resolve_county(stations, x),
     year |-> year_read(x.water_year, month_map[x.column]),
     month |-> month_map[x.column]]

placed_first_readings(stations, xs) == {placed_first(stations, x) : x \in xs}

\* C12: once process_and_aggregate_rainfall has completed, the readings of a
\* station with several metadata records are summed under the county of the
\* first record that declares one, never under a later record's county and
\* never under a county inferred from the station name.
C12_FirstSourceWins ==
    rainfall_done =>
        sums_of(placed_first_readings(stations_df(station_metadata), readings(raw_rainfall_dir)),
                rainfall_monthly.rows)

\* a completed run on metadata with two records of station NAP, the first
\* declaring a county and the second another or none, and on readings of NAP
C12_StationDeclaredTwice ==
    /\ rainfall_done
    /\ Len(station_metadata.rows) = 2
    /\ station_metadata.rows[1] = <<sta_NAP, txt_Napa>>
    /\ station_metadata.rows[2] \in {<<sta_NAP, txt_KERN_sp>>, <<sta_NAP, <<>>>>}
    /\ \E x \in readings(raw_rainfall_dir) : x.station_id = sta_NAP

\* county k of the closed list occurs in a name given in lower case
occurs_in(lname, k) ==
    \E p \in 1..(Len(lname) - Len(ca_counties[k]) + 1) :
        SubSeq(lname, p, p + Len(ca_counties[k]) - 1) = lower(ca_counties[k])

\* the counties of the closed list that occur in a station name
occurring(lname) == {ca_counties[k] : k \in {k \in 1..Len(ca_counties) : occurs_in(lname, k)}}

\* the county a reading may be attributed to by its station name
named_counties(cs) == IF cs = {} THEN {txt_Unknown} ELSE cs

\* the station of the reading has no record in the metadata
absent(stations, x) == \A i \in 1..Len(stations) : stations[i].station_id # x.station_id

\* every reading among ps of a station absent from the metadata is placed
\* under a county its name holds, or under "Unknown" when it holds none, and
\* the rows hold the sum of that county, year and month
inferred_rows(stations, ps, rows) ==
    \A p \in {p \in ps : absent(stations, p.reading)} :
        /\ p.county \in named_counties(occurring(lower(p.reading.station_name)))
        /\ [county |-> p.county, year |-> p.year, month |-> p.month,
            precip_in |-> inches_of(under(ps, p.county, p.year, p.month))] \in rows

\* C14: once process_and_aggregate_rainfall has run on readable metadata and
\* sound raw tables, every numeric reading of a station absent from the
\* metadata is summed under a county of the closed list, in title case, that
\* occurs in its station name whatever the case, and under "Unknown" only
\* when no county of the list occurs in the name.
C14_NameInference ==
    (/\ rainfall_report # "not run"
     /\ metadata_readable(station_metadata)
     /\ raw_tables_sound(raw_rainfall_dir)) =>
        inferred_rows(stations_df(station_metadata), placed_now, rainfall_monthly.rows)

\* a completed run on a station absent from the metadata whose name holds
\* two county names in lower case, summed under one of them
C14_CountyInferredFromName ==
    /\ rainfall_done
    /\ \E x \in readings(raw_rainfall_dir) :
          /\ absent(stations_df(station_metadata), x)
          /\ x.station_name = txt_napa_lake
    /\ \E r \in rainfall_monthly.rows : r.county = txt_Napa /\ r.year = 2014 /\ r.month = 10

\* a reading under the county that the assignment gives its station
placed_by(assignment, x) ==
    [reading |-> x,
     county |-> assignment[x.station_id],
     year |-> year_read(x.water_year, month_map[x.column]),
     month |-> month_map[x.column]]

\* the rows are the sums of the readings xs under one county per station
one_county_per_station(xs, rows) ==
    \E assignment \in [{x.station_id : x \in xs} -> {r.county : r \in rows}] :
        sums_of({placed_by(assignment, x) : x \in xs}, rows)

\* C17: once process_and_aggregate_rainfall has completed, the aggregate is
\* the sum of the readings under one county per station identifier: all
\* readings of a station, of every file and month and whatever station name
\* their rows carry, are in rows of one county.
C17_OneCountyPerStation ==
    rainfall_done => one_county_per_station(readings(raw_rainfall_dir), rainfall_monthly.rows)

\* a completed run on two water-year files in which one station identifier
\* carries two station names
C17_StationUnderTwoNames ==
    /\ rainfall_done
    /\ \E x, y \in readings(raw_rainfall_dir) :
          /\ x.station_id = y.station_id
          /\ x.file # y.file
          /\ x.station_name # y.station_name

----------------------------------------------------------------------------
(* Properties of the pipeline *)

\* C6: every record of the merged table has incident_count >= 0,
\* acres_burned >= 0, precip_in >= 0 and a month in 1..12, whatever the raw
\* inputs of the three stages.
C6_MergedRecordsInRange ==
    \A r \in analysis_csv.rows :
        /\ r.incident_count >= 0
        /\ r.acres_burned >= 0
        /\ r.precip_in >= 0
        /\ r.month \in 1..12

EmptyAggregate == [exists |-> TRUE, rows |-> {}]

merge_step == merge_report' # merge_report \/ analysis_csv' # analysis_csv

\* the merged table that holds the wildfire data alone
wildfire_only(rows) == {outer_row(k, rows, {}) : k \in input_keys(rows)}

\* C7: a run of process_and_aggregate_rainfall on a directory without raw
\* tables reports it and leaves an empty rainfall aggregate, and a merge run
\* after it writes every key of the wildfire aggregate with precip_in = 0.
C7_EmptyRainfallSource ==
    [][/\ (raw_tables(raw_rainfall_dir) = {} /\ rainfall_report' # rainfall_report)
          => /\ rainfall_report' = "No raw rainfall data found to process."
             /\ rainfall_monthly' = EmptyAggregate
       /\ (/\ raw_tables(raw_rainfall_dir) = {}
           /\ rainfall_report = "No raw rainfall data found to process."
           /\ wildfire_done
           /\ merge_step)
          => /\ merge_report' = "Datasets merged successfully."
             /\ analysis_csv' = [exists |-> TRUE, rows |-> wildfire_only(wildfire_monthly.rows)]]_vars

----------------------------------------------------------------------------
(* Properties of the two normalizer stages *)

\* C8: a run of a normalizer stage that follows a completed run on the same
\* raw input and completes leaves the aggregate as it was, whatever the
\* order in which the directory lists the raw files.
C8_Deterministic ==
    [][/\ (wildfire_done /\ wildfire_done') => wildfire_monthly' = wildfire_monthly
       /\ (rainfall_done /\ rainfall_done') => rainfall_monthly' = rainfall_monthly]_vars

\* both stages have completed twice, the rainfall stage on a directory of two
\* water years
C8_BothRerun ==
    /\ reran = {"wildfire", "rainfall"}
    /\ wildfire_done
    /\ rainfall_done
    /\ Cardinality(raw_tables(raw_rainfall_dir)) = 2
    /\ wildfire_monthly.rows # {}
    /\ rainfall_monthly.rows # {}

\* the incident file without its malformed records
well_formed_only(f, df) ==
    [exists |-> TRUE, header |-> f.header,
     rows |-> Eager([k \in 1..Cardinality({i \in 1..Len(df) : well_formed(df[i])}) |->
                 f.rows[CHOOSE i \in 1..Len(df) :
                           /\ well_formed(df[i])
                           /\ Cardinality({h \in 1..i : well_formed(df[h])}) = k]])]

\* the entry of a raw table as the stage sees an entry left empty, when it
\* is no number
unreported(header, c, cell) ==
    IF header[c] \in DOMAIN month_map /\ to_numeric(cell) = {} THEN <<>> ELSE cell

\* the raw tables with every entry that is no number left empty
numeric_only(dir) ==
    {[name |-> f.name, header |-> f.header,
      rows |-> Eager([i \in 1..Len(f.rows) |->
                  Eager([c \in 1..Len(f.rows[i]) |-> unreported(f.header, c, f.rows[i][c])])])] :
        f \in dir}

\* C9: a completed run of process_wildfire_data wrote the table it writes
\* for the file without the records that have no numeric acreage, no county
\* or no date that parses, and the stage completes on every file that has
\* its columns; a completed run of process_and_aggregate_rainfall wrote the
\* table it writes when the entries that are no number are left empty, and
\* the keys of that table are those of the numeric readings.
C9_MalformedDroppedLocally ==
    /\ wildfire_done =>
          wildfire_monthly.rows = wildfire_run(well_formed_only(incidents_csv, incidents)).rows
    /\ (/\ wildfire_report # "not run"
        /\ incidents_csv.exists
        /\ \A name \in {col_incident_name, col_incident_county, col_incident_dateonly_created,
                       col_incident_acres_burned} :
              \E c \in 1..Len(incidents_csv.header) : lower(strip(incidents_csv.header[c])) = name)
       => wildfire_done
    /\ rainfall_done =>
          /\ \A listing \in listings(numeric_only(raw_rainfall_dir)) :
                rainfall_run(station_metadata, listing, re_inline_flags_ok).rows
                    = rainfall_monthly.rows
          /\ keys_of(rainfall_monthly.rows) = keys_of(placed_now)

\* an incident of two counties aggregated as if the incident whose acreage
\* is no number were absent, and a station row whose "Jan" entry is no
\* number while its "Oct" reading is summed
C9_BadRecordAndBadEntry ==
    /\ wildfire_done
    /\ Len(incidents) = 2
    /\ ~well_formed(incidents[2])
    /\ wildfire_monthly.rows =
          {[county |-> c, year |-> 2020, month |-> 7, incident_count |-> 1,
            acres_burned |-> 100500] : c \in {txt_Napa, txt_Kern}}
    /\ rainfall_done
    /\ \E f \in raw_tables(raw_rainfall_dir) : \E i \in 1..Len(f.rows) :
          f.rows[i] = <<sta_NAP, txt_NAPA_RIVER, txt_1_005, txt_dashes>>
    /\ \E r \in rainfall_monthly.rows : r.county = txt_Napa /\ r.month = 10
    /\ \A r \in rainfall_monthly.rows : r.county = txt_Napa => r.month # 1

\* the incident file is missing or lacks a required column after the
\* normalization of its header
wildfire_structural ==
    \/ ~incidents_csv.exists
    \/ \E name \in {col_incident_county, col_incident_dateonly_created,
                   col_incident_acres_burned} :
          \A c \in 1..Len(incidents_csv.header) : lower(strip(incidents_csv.header[c])) # name

columns_offered == {metadata_column(station_metadata.header[c]) : c \in 1..Len(station_metadata.header)}

\* the station metadata offers neither naming variant
metadata_structural ==
    /\ station_metadata.exists
    /\ ~({col_id, col_county} \subseteq columns_offered)
    /\ ~({col_name, col_county_name} \subseteq columns_offered)

\* C10: on a missing incident file or one that lacks a required column, and
\* on station metadata that offers neither naming variant, a run of the
\* stage reports the problem and leaves the aggregate file as it was.
C10_StructuralFailure ==
    [][/\ wildfire_structural =>
             /\ wildfire_monthly' = wildfire_monthly
             /\ wildfire_report' \in {wildfire_report, "Error: Input file not found",
                                      "Error: Missing one or more required columns"}
       /\ metadata_structural =>
             /\ rainfall_monthly' = rainfall_monthly
             /\ rainfall_report' \in {rainfall_report, "Error reading station metadata file"}]_vars

\* both stages have reported a structural problem and the aggregates of an
\* earlier run are still there
C10_FailedRunsLeftOutputs ==
    /\ wildfire_structural
    /\ incidents_csv.exists
    /\ wildfire_report = "Error: Missing one or more required columns"
    /\ wildfire_monthly = EarlierWildfireMonthly
    /\ metadata_structural
    /\ rainfall_report = "Error reading station metadata file"
    /\ rainfall_monthly = EarlierRainfallMonthly

----------------------------------------------------------------------------
(* Properties of the stages run one after another *)

\* the last run of the stage ended on a missing file or on missing columns
wildfire_aborted ==
    wildfire_report \in {"Error: Input file not found",
                         "Error: Missing one or more required columns"}

rainfall_aborted == rainfall_report = "Error reading station metadata file"

raw_inputs == <<incidents_csv, station_metadata, raw_rainfall_dir>>

\* the keys of the well-formed incidents of the incident file
incident_keys(df) ==
    UNION {{key_listed(df[i], j) : j \in 1..Len(counties_listed(df[i]))} :
              i \in {i \in 1..Len(df) : well_formed(df[i])}}

\* the keys of the two aggregates under the canonical spelling of the county
aggregate_keys == input_keys(wildfire_monthly.rows) \cup input_keys(rainfall_monthly.rows)

\* C16: no step changes a raw input; a step that changes the wildfire
\* aggregate, the rainfall aggregate or the merged table changes neither of
\* the other two; and the file a step writes holds the keys of the step's
\* inputs alone, nothing of what the file held before.
C16_DownstreamOnly ==
    [][/\ raw_inputs' = raw_inputs
       /\ wildfire_monthly' # wildfire_monthly =>
             /\ rainfall_monthly' = rainfall_monthly /\ analysis_csv' = analysis_csv
             /\ keys_of(wildfire_monthly'.rows) = incident_keys(incidents)
       /\ rainfall_monthly' # rainfall_monthly =>
             /\ wildfire_monthly' = wildfire_monthly /\ analysis_csv' = analysis_csv
             /\ keys_of(rainfall_monthly'.rows) = keys_of(placed_now)
       /\ analysis_csv' # analysis_csv =>
             /\ wildfire_monthly' = wildfire_monthly /\ rainfall_monthly' = rainfall_monthly
             /\ keys_of(analysis_csv'.rows) = aggregate_keys]_vars

\* the three stages have each completed twice, so each has written over a
\* file that was there, and the merged table is not empty
C16_EachStageRewrote ==
    /\ reran = {"wildfire", "rainfall", "merge"}
    /\ wildfire_done /\ rainfall_done /\ merged
    /\ wildfire_monthly.rows # {}
    /\ rainfall_monthly.rows # {}
    /\ analysis_csv.rows # {}
====
